---- MODULE Spec2Model ----
(***************************************************************************)
(* persist.c: a Primary process that daemonizes, forks a Watcher and spams *)
(* syslog, and a Watcher ("bash") that restores the on-disk binary when it *)
(* is missing and re-execs the Primary when it is gone.                    *)
(*                                                                         *)
(* The model is the process table (one record per process identifier),     *)
(* the file system restricted to the paths the program can name, and the   *)
(* environment (file deletion, kill).  Every system call outcome the code  *)
(* tests, or fails to test, is a nondeterministic input of the action.     *)
(***************************************************************************)
EXTENDS Integers, Sequences, FiniteSets, TLC

VARIABLES
    proc,       \* process table: pid -> process record (statics pid, exe; argv[0]; image; ...)
    fs,         \* file system: path -> NoFile or [content, x]
    binary,     \* the bytes of the persist binary as built
    kills,      \* number of processes killed by the environment
    deletes,    \* number of files unlinked by the environment
    ev          \* the last step taken: [op, p, out], p the caller

vars == <<proc, fs, binary, kills, deletes, ev>>

(***************************************************************************)
(* Bounds of the model.                                                    *)
(***************************************************************************)
MaxPid == 4
MaxSize == 2
MaxKills == 1
MaxDeletes == 1
MaxLog == 1

(***************************************************************************)
(* Program constants.                                                      *)
(***************************************************************************)
BIN_NAME == "persist"
WATCHER_NAME == "bash"

(***************************************************************************)
(* The operating system.                                                   *)
(***************************************************************************)
SystemPids == {1}
Reaper == CHOOSE q \in SystemPids : TRUE       \* orphans are re-parented to it
Pids == (2..MaxPid) \ SystemPids               \* identifiers persist processes can get
FirstPid == CHOOSE q \in Pids : \A r \in Pids : q <= r

\* The binary as built: any size from 1 to MaxSize, byte i holding the value i, so
\* that a copy that is short, shifted or reordered differs from it.
Contents == {[i \in 1..n |-> i] : n \in 1..MaxSize}

\* A path is a sequence of components; readlink on /proc/N/exe appends
\* " (deleted)" to the path of an unlinked image.
OrigPath == <<"/opt/persist">>
InitPath == <<"/sbin/init">>
Annotate(path) == Append(path, " (deleted)")

RECURSIVE AnnotatedN(_)
AnnotatedN(n) == IF n = 0 THEN OrigPath ELSE Annotate(AnnotatedN(n - 1))

\* Each annotation of a resolved path takes one more unlink of a running image.
Paths == {AnnotatedN(n) : n \in 0..MaxDeletes} \cup {InitPath}

NoFile == [content |-> <<>>, x |-> FALSE, present |-> FALSE]
File(c, x) == [content |-> c, x |-> x, present |-> TRUE]
FileAt(path) == IF path \in DOMAIN fs THEN fs[path] ELSE NoFile
Exists(path) == FileAt(path).present

NoImage == [path |-> <<>>, deleted |-> FALSE, content |-> <<>>]

\* The slot of an identifier no process has.
NoProc == [pc |-> "none", argv0 |-> "", pid |-> 0, exe |-> <<>>, ppid |-> 0,
           img |-> NoImage, comm |-> "", status |-> "", fds |-> {}, logfd |-> -1,
           hist |-> <<>>, forker |-> 0, logged |-> 0, slept |-> 0]

Alive(q) == q \in Pids /\ proc[q].pc /= "none"
ProcExists(q) == q \in SystemPids \/ Alive(q)      \* stat("/proc/q") succeeds
FreePids == {q \in Pids : proc[q].pc = "none"}

\* open(2) returns the lowest descriptor that is not open.
LowestFree(S) == CHOOSE n \in 0..Cardinality(S) : n \notin S /\ \A m \in 0..(n - 1) : m \in S

Event(op, p, out) == [op |-> op, p |-> p, out |-> out]

\* Process p leaves the process table; its children are re-parented.
Gone(t, p) ==
    [q \in Pids |->
        IF q = p THEN NoProc
        ELSE IF t[q].pc /= "none" /\ t[q].ppid = p THEN [t[q] EXCEPT !.ppid = Reaper]
        ELSE t[q]]

\* hist: what a process has done since it was exec'ed or forked, in order, each
\* step with the process identifier it was applied to.  forker: the process whose
\* fork() created this one (0 for a process started from outside).  logged, slept:
\* the syslog records handed over and the sleeps completed in spam.
Log(r, op, arg) == [r EXCEPT !.hist = Append(@, <<op, arg>>)]

(***************************************************************************)
(* Initial state: one persist process, just exec'ed by the system, under   *)
(* the Watcher's invocation identity or another one (BIN_NAME itself is    *)
(* the identity check_run gives), with or without standard input open.     *)
(***************************************************************************)
StartNames == {WATCHER_NAME, "./persist"}
StartFds == {{0, 1, 2}, {1, 2}}

Fresh(name, parent, path, content, fdset) ==
    [pc |-> "start", argv0 |-> name, pid |-> 0, exe |-> <<>>, ppid |-> parent,
     img |-> [path |-> path, deleted |-> FALSE, content |-> content],
     comm |-> BIN_NAME, status |-> "Name:persist", fds |-> fdset, logfd |-> -1,
     hist |-> <<>>, forker |-> 0, logged |-> 0, slept |-> 0]

Init ==
    /\ binary \in Contents
    /\ fs = [path \in Paths |->
                IF path = OrigPath THEN File(binary, TRUE)
                ELSE IF path = InitPath THEN File(<<>>, TRUE)
                ELSE NoFile]
    /\ \E name \in StartNames, fdset \in StartFds :
          proc = [q \in Pids |->
                    IF q = FirstPid THEN Fresh(name, Reaper, OrigPath, binary, fdset)
                    ELSE NoProc]
    /\ kills = 0
    /\ deletes = 0
    /\ ev = Event("boot", FirstPid, "ok")

(***************************************************************************)
(* execv / execvp of a path containing a slash: the calling process keeps  *)
(* its identifier, parent and open descriptors (the syslog socket is       *)
(* close-on-exec) and restarts at main with fresh statics.  A truncated    *)
(* copy of the binary either is refused by the kernel or is loaded and     *)
(* killed on its first fault.                                              *)
(***************************************************************************)
ExecOutcomes(path) ==
    LET f == FileAt(path) IN
    IF ~f.present \/ ~f.x THEN {"fail"}
    ELSE IF f.content = binary THEN {"ok"}
    ELSE IF f.content = <<>> THEN {"fail"}
    ELSE {"fail", "killed"}

Replaced(r, path, name) ==
    [Fresh(name, r.ppid, path, FileAt(path).content, r.fds \ {r.logfd})
        EXCEPT !.forker = r.forker]

(***************************************************************************)
(* main, lines 303-309: the role test, then either pid = getppid() or      *)
(* daemon(1, 1); pid = getpid().  daemon forks and the parent _exits, so   *)
(* the caller goes on under a new identifier as a child of the reaper; if  *)
(* its fork fails daemon returns -1, which main ignores.                   *)
(***************************************************************************)
IsWatcher(name) == name = WATCHER_NAME

main_role(p) ==
    LET r == proc[p] IN
    /\ r.pc = "start"
    /\ IF IsWatcher(r.argv0)
       THEN /\ proc' = [proc EXCEPT ![p] =
                          Log([r EXCEPT !.pid = r.ppid, !.pc = "reset_comm"], "getppid", r.ppid)]
            /\ ev' = Event("main_role", p, "watcher")
       ELSE \/ \E c \in FreePids :
                 /\ proc' = [Gone(proc, p) EXCEPT ![c] =
                               Log([r EXCEPT !.ppid = Reaper, !.pid = c, !.pc = "init"],
                                   "daemon", c)]
                 /\ ev' = Event("main_role", p, "daemonized")
            \/ /\ proc' = [proc EXCEPT ![p] =
                             Log([r EXCEPT !.pid = p, !.pc = "init"], "daemon", p)]
               /\ ev' = Event("main_role", p, "daemon_failed")
    /\ UNCHANGED <<fs, binary, kills, deletes>>

(***************************************************************************)
(* reset_comm, lines 197-266.  The short name is written through           *)
(* /proc/<pid>/comm, pid being the static; the kernel accepts a write to   *)
(* comm only from a thread of the target process itself.  The status       *)
(* record is addressed with getpid().  offs is read uninitialized (line    *)
(* 227), so building the buffer may fault; the fread and fwrite results    *)
(* are compared with -1, which they never equal.  procfs has no write      *)
(* operation for status: the write-back is refused, whoever the caller is. *)
(***************************************************************************)
CommTarget(p) == proc[p].pid

StatusOutcomes == {"stat_failed", "segv", "open_read_failed", "open_write_failed",
                   "write_rejected"}

reset_comm(p) ==
    LET r == proc[p]
        t == CommTarget(p)
    IN
    /\ r.pc = "reset_comm"
    /\ \E commOpened \in BOOLEAN, o \in StatusOutcomes :
          LET named == IF commOpened /\ t = p
                       THEN [r EXCEPT !.comm = WATCHER_NAME] ELSE r
              rec   == r.status                  \* no outcome rewrites the record
              done  == Log([named EXCEPT !.status = rec, !.pc = "init"],
                           "reset_comm", t)
          IN
          /\ proc' = IF o = "segv" THEN Gone(proc, p) ELSE [proc EXCEPT ![p] = done]
          /\ ev' = Event("reset_comm", p, o)
    /\ UNCHANGED <<fs, binary, kills, deletes>>

(***************************************************************************)
(* init, lines 62-77: readlink("/proc/<pid>/exe") with the static pid.     *)
(***************************************************************************)
ResolveTarget(p) == proc[p].pid

\* What readlink can return for /proc/q/exe: the set of paths, empty when
\* the link does not exist.  The reaper's link is readable by root only.
Readlink(q) ==
    IF q \in SystemPids THEN {InitPath}
    ELSE IF ~Alive(q) THEN {}
    ELSE IF proc[q].img.deleted THEN {Annotate(proc[q].img.path)}
    ELSE {proc[q].img.path}

\* readlink's return and what it left in exe: the length and the path, or -1
\* and the zeros of the memset.
ReadlinkResults(q) ==
    {[exelen |-> Len(path), path |-> path] : path \in Readlink(q)}
        \cup {[exelen |-> -1, path |-> <<>>]}

ResolveFailed_never(exelen) == FALSE                \* the test of readlink's result left out
ResolveFailed(exelen) == exelen = -1                \* -1 == exelen

init(p) ==
    LET r == proc[p]
        q == ResolveTarget(p)
    IN
    /\ r.pc = "init"
    /\ \E res \in ReadlinkResults(q) :
          /\ proc' = IF ResolveFailed(res.exelen)
                     THEN Gone(proc, p)                \* err(EXIT_FAILURE, ...)
                     ELSE [proc EXCEPT ![p] =          \* exe: what readlink wrote over the zeros
                             Log([r EXCEPT !.exe = res.path, !.pc = "dispatch"], "init", q)]
          /\ ev' = Event("init", p, IF res.exelen = -1 THEN "failed" ELSE "resolved")
    /\ UNCHANGED <<fs, binary, kills, deletes>>

(***************************************************************************)
(* main, lines 312-326: openlog with LOG_NDELAY connects the syslog socket *)
(* at once (it takes the lowest free descriptor, or none when the connect  *)
(* fails); then the process whose static pid is its own identifier forks,  *)
(* and any other process enters watch.                                     *)
(***************************************************************************)
IsPrimary_ppid(p) == proc[p].pid = proc[p].ppid     \* the test written pid == getppid()
IsPrimary(p) == proc[p].pid = p

main_dispatch(p) ==
    LET r == proc[p] IN
    /\ r.pc = "dispatch"
    /\ \E connected \in BOOLEAN :
          LET fd == LowestFree(r.fds)
              l  == IF connected
                    THEN [r EXCEPT !.fds = @ \cup {fd}, !.logfd = fd] ELSE r
          IN
          IF IsPrimary(p)
          THEN \/ \E c \in FreePids :                      \* fork() > 0 and fork() = 0
                    /\ proc' = [proc EXCEPT
                                  ![p] = Log([l EXCEPT !.pc = "spam"], "fork", c),
                                  ![c] = [l EXCEPT !.pc = "child", !.ppid = p, !.forker = p,
                                                   !.hist = <<<<"forked", p>>>>]]
                    /\ ev' = Event("main_dispatch", p, "forked")
               \/ /\ proc' = Gone(proc, p)                 \* case -1: abort()
                  /\ ev' = Event("main_dispatch", p, "fork_failed")
          ELSE /\ proc' = [proc EXCEPT ![p] = [l EXCEPT !.pc = "sleep"]]
               /\ ev' = Event("main_dispatch", p, "watch")
    /\ UNCHANGED <<fs, binary, kills, deletes>>

(***************************************************************************)
(* main, lines 319-322: the forked child calls execvp(exe, nargv); the     *)
(* case has no break, so a failed execvp falls through to spam().          *)
(***************************************************************************)
main_nargv == WATCHER_NAME

main_child(p) ==
    LET r == proc[p] IN
    /\ r.pc = "child"
    /\ \E o \in ExecOutcomes(r.exe) :
          /\ proc' = IF o = "ok" THEN [proc EXCEPT ![p] = Replaced(r, r.exe, main_nargv)]
                     ELSE IF o = "killed" THEN Gone(proc, p)
                     ELSE [proc EXCEPT ![p].pc = "spam"]
          /\ ev' = Event("main_child", p, o)
    /\ UNCHANGED <<fs, binary, kills, deletes>>

(***************************************************************************)
(* spam, lines 288-295: one syslog record, then sleep(3600).               *)
(***************************************************************************)
\* syslog returns nothing: whether the record reached the sink or was dropped,
\* the caller goes on to sleep.
spam_twice(p) ==                                    \* two records per iteration
    /\ proc[p].pc = "spam"
    /\ proc[p].logged < MaxLog
    /\ proc' = [proc EXCEPT ![p].pc = "spam_sleep", ![p].logged = @ + 2]
    /\ ev' = Event("spam", p, "logged")
    /\ UNCHANGED <<fs, binary, kills, deletes>>

spam_refork(p) ==                                   \* a loop that forks again
    /\ proc[p].pc = "spam"
    /\ proc[p].logged < MaxLog
    /\ \E c \in FreePids :
          proc' = [proc EXCEPT
                     ![p] = Log([proc[p] EXCEPT !.pc = "spam_sleep", !.logged = @ + 1], "fork", c),
                     ![c] = [proc[p] EXCEPT !.pc = "child", !.ppid = p, !.forker = p,
                                            !.hist = <<<<"forked", p>>>>]]
    /\ ev' = Event("spam", p, "logged")
    /\ UNCHANGED <<fs, binary, kills, deletes>>

spam(p) ==
    /\ proc[p].pc = "spam"
    /\ proc[p].logged < MaxLog
    /\ proc' = [proc EXCEPT ![p].pc = "spam_sleep",       \* syslog(LOG_EMERG, "hey! you!")
                            ![p].logged = @ + 1]
    /\ \E sent \in BOOLEAN : ev' = Event("spam", p, IF sent THEN "logged" ELSE "lost")
    /\ UNCHANGED <<fs, binary, kills, deletes>>

spam_sleep(p) ==
    /\ proc[p].pc = "spam_sleep"
    /\ proc' = [proc EXCEPT ![p].pc = "spam", ![p].slept = @ + 1]   \* sleep(3600) returns
    /\ ev' = Event("spam_sleep", p, "woke")
    /\ UNCHANGED <<fs, binary, kills, deletes>>

(***************************************************************************)
(* watch, lines 273-281: sleep(60), check_bin(), check_run(), repeat.      *)
(***************************************************************************)
watch_first_check_run == "check_run"                \* the two calls written in the other order
watch_first == "check_bin"                          \* the call that follows sleep(60)

watch(p) ==
    /\ proc[p].pc = "sleep"
    /\ proc' = [proc EXCEPT ![p].pc = watch_first]
    /\ ev' = Event("watch", p, "woke")
    /\ UNCHANGED <<fs, binary, kills, deletes>>

(***************************************************************************)
(* check_bin, lines 85-146.                                                *)
(***************************************************************************)
OriginalInPlace_inverted(p) == ~Exists(proc[p].exe) \* the test written 0 != stat(...)
OriginalInPlace(p) == Exists(proc[p].exe)           \* 0 == stat(exe, &st)
SendfileFailed(n) == n = -1                         \* -1 == sendfile(...)
MustClose(fd) == fd > 0                             \* if (dst > 0), if (src > 0)

\* A write of `data` at offset 0 of a file holding `old` (no O_TRUNC).
Overwrite(old, data) ==
    IF Len(data) >= Len(old) THEN data
    ELSE data \o SubSeq(old, Len(data) + 1, Len(old))

RestoreFailures == {"stat", "open_dst", "open_src", "none"}

check_bin(p) ==
    LET r == proc[p] IN
    /\ r.pc = "check_bin"
    /\ IF OriginalInPlace(p)
       THEN /\ proc' = [proc EXCEPT ![p].pc = "check_run"]
            /\ fs' = fs
            /\ ev' = Event("check_bin", p, "present")
       ELSE \E f \in RestoreFailures, n \in -1..Len(r.img.content) :
              LET origlen == Len(r.img.content)           \* st.st_size of /proc/self/exe
                  opened  == f \in {"open_src", "none"}   \* dst = open(exe, O_CREAT|O_WRONLY, 0755)
                  copying == f = "none"                   \* src = open(p, O_RDONLY)
                  dst     == IF opened THEN LowestFree(r.fds)
                             ELSE IF f = "open_dst" THEN -1 ELSE 0
                  src     == IF copying THEN LowestFree(r.fds \cup {dst})
                             ELSE IF f = "open_src" THEN -1 ELSE 0
                  failed  == ~copying \/ SendfileFailed(n)
                  old     == IF Exists(r.exe) THEN FileAt(r.exe)
                             ELSE File(<<>>, TRUE)         \* created empty, mode 0755
                  data    == IF copying /\ n >= 0 THEN SubSeq(r.img.content, 1, n) ELSE <<>>
                  held    == (IF opened THEN {dst} ELSE {})
                                \cup (IF copying THEN {src} ELSE {})
                  kept    == {fd \in held : ~MustClose(fd)}
              IN
              /\ f /= "none" => n = -1
              /\ n <= origlen
              /\ fs' = IF opened
                       THEN [fs EXCEPT ![r.exe] = [old EXCEPT !.content = Overwrite(@, data)]]
                       ELSE fs
              /\ proc' = IF failed THEN Gone(proc, p)      \* err(EXIT_FAILURE, ...)
                         ELSE [proc EXCEPT ![p].pc = "check_run",
                                           ![p].fds = @ \cup kept]
              /\ ev' = Event("check_bin", p, IF failed THEN "failed" ELSE "restored")
    /\ UNCHANGED <<binary, kills, deletes>>

(***************************************************************************)
(* check_run, lines 159-176: stat("/proc/<pid>"); when it fails,           *)
(* execv(exe, nargv), whose return is not looked at.                       *)
(***************************************************************************)
PeerRunning_inverted(p) == ~ProcExists(proc[p].pid) \* the test written 0 != stat(...)
PeerRunning(p) == ProcExists(proc[p].pid)           \* 0 == stat(p, &st)
check_run_nargv_watcher == WATCHER_NAME             \* main's nargv pasted into check_run
check_run_nargv == BIN_NAME

check_run(p) ==
    LET r == proc[p] IN
    /\ r.pc = "check_run"
    /\ IF PeerRunning(p)
       THEN /\ proc' = [proc EXCEPT ![p].pc = "sleep"]
            /\ ev' = Event("check_run", p, "running")
       ELSE \E o \in ExecOutcomes(r.exe) :
              /\ proc' = IF o = "ok"
                         THEN [proc EXCEPT ![p] = Replaced(r, r.exe, check_run_nargv)]
                         ELSE IF o = "killed" THEN Gone(proc, p)
                         ELSE [proc EXCEPT ![p].pc = "sleep"]
              /\ ev' = Event("check_run", p, o)
    /\ UNCHANGED <<fs, binary, kills, deletes>>

(***************************************************************************)
(* The environment: the on-disk file is unlinked; a process is killed.     *)
(***************************************************************************)
Unlink(path) ==
    /\ deletes < MaxDeletes
    /\ path /= InitPath
    /\ Exists(path)
    /\ fs' = [fs EXCEPT ![path] = NoFile]
    /\ proc' = [q \in Pids |->
                  IF proc[q].pc /= "none" /\ proc[q].img.path = path
                  THEN [proc[q] EXCEPT !.img.deleted = TRUE] ELSE proc[q]]
    /\ deletes' = deletes + 1
    /\ ev' = Event("unlink", 0, "ok")
    /\ UNCHANGED <<binary, kills>>

Kill(p) ==
    /\ kills < MaxKills
    /\ Alive(p)
    /\ proc' = Gone(proc, p)
    /\ kills' = kills + 1
    /\ ev' = Event("kill", p, "ok")
    /\ UNCHANGED <<fs, binary, deletes>>

Next ==
    \/ \E p \in Pids : main_role(p)
    \/ \E p \in Pids : reset_comm(p)
    \/ \E p \in Pids : init(p)
    \/ \E p \in Pids : main_dispatch(p)
    \/ \E p \in Pids : main_child(p)
    \/ \E p \in Pids : spam(p)
    \/ \E p \in Pids : spam_sleep(p)
    \/ \E p \in Pids : watch(p)
    \/ \E p \in Pids : check_bin(p)
    \/ \E p \in Pids : check_run(p)
    \/ \E path \in Paths : Unlink(path)
    \/ \E p \in Pids : Kill(p)

Spec == Init /\ [][Next]_vars

(***************************************************************************)
(* The end-to-end scenario: no system call fails unless it has to (readlink *)
(* of a process that is gone, fork with no identifier left), the file is   *)
(* unlinked and the Primary is killed only while its Watcher sleeps in     *)
(* watch, and every process that can take a step eventually does.          *)
(***************************************************************************)
Step(p) ==
    \/ main_role(p) \/ reset_comm(p) \/ init(p) \/ main_dispatch(p) \/ main_child(p)
    \/ spam(p) \/ spam_sleep(p) \/ watch(p) \/ check_bin(p) \/ check_run(p)

InjectedFailure ==
    \/ ev'.op = "init" /\ ev'.out = "failed" /\ Readlink(proc[ev'.p].pid) /= {}
    \/ ev'.op = "check_bin" /\ ev'.out = "failed"
    \/ ev'.op = "main_dispatch" /\ ev'.out = "fork_failed" /\ FreePids /= {}
    \/ ev'.op = "main_role" /\ ev'.out = "daemon_failed" /\ FreePids /= {}

Asleep(w) == proc[w].pc = "sleep" /\ proc[w].argv0 = WATCHER_NAME

LiveUnlink(path) ==
    /\ \E w \in Pids : Asleep(w) /\ proc[w].exe = path
    /\ Unlink(path)

LiveKill(p) ==
    /\ proc[p].pc \in {"spam", "spam_sleep"}
    /\ \E w \in Pids : Asleep(w) /\ proc[w].pid = p
    /\ Kill(p)

LiveNext ==
    \/ \E p \in Pids : Step(p) /\ ~InjectedFailure
    \/ \E path \in Paths : LiveUnlink(path)
    \/ \E p \in Pids : LiveKill(p)

LiveSpec ==
    /\ Init
    /\ [][LiveNext]_vars
    /\ \A p \in Pids : WF_vars(Step(p) /\ ~InjectedFailure)

(***************************************************************************)
(* Properties.                                                             *)
(***************************************************************************)
Did(op, p) == ev'.op = op /\ ev'.p = p          \* this step is p's run of op
Beacon(p) == proc[p].pc \in {"spam", "spam_sleep"}             \* in spam()
Guardian(p) == proc[p].pc \in {"sleep", "check_bin", "check_run"} \* in watch()
Looping(p) == Beacon(p) \/ Guardian(p)
Intact(path) == FileAt(path).present /\ FileAt(path).x /\ FileAt(path).content = binary

\* C1. Restoration correctness: a check_bin that finds the target missing and
\* returns leaves the target existing, executable and byte-identical to the
\* running image of the caller.
C1_RestorationCorrect ==
    [][\A p \in Pids :
          (Did("check_bin", p) /\ ~Exists(proc[p].exe) /\ Alive(p)')
          => /\ fs'[proc[p].exe].present
             /\ fs'[proc[p].exe].x
             /\ fs'[proc[p].exe].content = proc[p].img.content]_vars

\* C2. Idempotence: a check_bin that finds the target present changes no file,
\* opens no descriptor and changes nothing of any process but the caller's
\* position, which moves on to check_run.
C2_Idempotent ==
    [][\A p \in Pids :
          (Did("check_bin", p) /\ Exists(proc[p].exe))
          => /\ fs' = fs
             /\ proc' = [proc EXCEPT ![p].pc = "check_run"]]_vars

C2_Witness ==
    /\ ev.op = "check_bin" /\ ev.out = "present"
    /\ deletes > 0                              \* a file was unlinked, and still
    /\ proc[ev.p].pc = "check_run"

\* C3 (as stated). Liveness recovery: a check_run that finds no process table
\* entry for pid replaces the caller's image by exe under the identity BIN_NAME,
\* creating no process; the caller restarts at main.
ReExeced(p) ==
    /\ proc'[p] = [Fresh(BIN_NAME, proc[p].ppid, proc[p].exe, FileAt(proc[p].exe).content,
                         proc[p].fds \ {proc[p].logfd}) EXCEPT !.forker = proc[p].forker]
    /\ \A q \in Pids \ {p} : proc'[q] = proc[q]

C4_FailedExecFatal ==
    (ev.op = "check_run" /\ ev.out = "fail") => ~Alive(ev.p)

\* C5. All-or-nothing: after a check_bin that found the target missing and
\* returned, the target exists and is not shorter than the running image.
C5_AllOrNothing ==
    (ev.op = "check_bin" /\ ev.out = "restored" /\ Alive(ev.p))
    => /\ Exists(proc[ev.p].exe)
       /\ Len(FileAt(proc[ev.p].exe).content) >= Len(proc[ev.p].img.content)

\* C6. Startup ordering: in every process, init precedes reset_comm, daemon and
\* fork.
C6_ResolveFirst ==
    \A p \in Pids : \A i \in DOMAIN proc[p].hist :
        proc[p].hist[i][1] \in {"reset_comm", "daemon", "fork"}
        => \E j \in 1..(i - 1) : proc[p].hist[j][1] = "init"

\* C7. Resolved path fidelity: in every process that has reached a loop, exe is
\* the original location of the binary, without annotation.
C7_PathFidelity ==
    \A p \in Pids : Looping(p) => proc[p].exe = OrigPath

\* C8. Self-resolution: init queries the image of the process's own identifier.
C8_SelfResolution ==
    \A p \in Pids : \A i \in DOMAIN proc[p].hist :
        proc[p].hist[i][1] = "init" => proc[p].hist[i][2] = p

\* C9. Disguise targets self only: reset_comm runs at most once, only under the
\* identity WATCHER_NAME, and the short name it opens for writing is the
\* caller's own.
C9_DisguiseSelf ==
    \A p \in Pids : \A i \in DOMAIN proc[p].hist :
        proc[p].hist[i][1] = "reset_comm"
        => /\ proc[p].argv0 = WATCHER_NAME
           /\ \A j \in DOMAIN proc[p].hist : proc[p].hist[j][1] = "reset_comm" => j = i
           /\ proc[p].hist[i][2] \in {0, p}

\* C10. Disguise is advisory: after reset_comm, whatever failed in it, the
\* caller is running and about to resolve its path, and unless the write-back
\* succeeded its status record is the one it had.
C10_DisguiseAdvisory ==
    ev.op = "reset_comm"
    => /\ Alive(ev.p)
       /\ proc[ev.p].pc = "init"
       /\ ev.out /= "written" => proc[ev.p].status = "Name:persist"


\* C11. Role determinism: a process under the identity WATCHER_NAME only ever
\* is on the Watcher's path (getppid, reset_comm, init, watch) and never
\* daemonizes, forks or runs spam; a process under any other identity only ever
\* is on the Primary's path (daemon, init, fork, spam) and never runs reset_comm
\* or watch; and the identity of a process changes only when it execs.
Did_(p, ops) == \E i \in DOMAIN proc[p].hist : proc[p].hist[i][1] \in ops

RoleOf(p) ==
    IF proc[p].pc = "none" THEN TRUE
    ELSE IF proc[p].argv0 = WATCHER_NAME
    THEN /\ proc[p].pc \in {"start", "reset_comm", "init", "dispatch",
                            "sleep", "check_bin", "check_run"}
         /\ ~Did_(p, {"daemon", "fork", "forked"})
         /\ proc[p].logged = 0
    ELSE /\ proc[p].pc \in {"start", "init", "dispatch", "child", "spam", "spam_sleep"}
         /\ ~Did_(p, {"getppid", "reset_comm"})
         /\ (Beacon(p) /\ ~Did_(p, {"forked"})) => (Did_(p, {"daemon"}) /\ Did_(p, {"fork"}))

C11_RoleDeterminism ==
    /\ [](\A p \in Pids : RoleOf(p))
    /\ [][\A p \in Pids :
            (Alive(p) /\ Alive(p)' /\ proc'[p].argv0 /= proc[p].argv0)
            => (ev'.op \in {"check_run", "main_child"} /\ ev'.out = "ok"
                /\ ev'.p = p /\ proc'[p].pc = "start")]_vars

C11_Witness ==
    \E p, w \in Pids :
        /\ proc[p].argv0 = BIN_NAME /\ proc[p].pc = "spam_sleep"
        /\ proc[w].argv0 = WATCHER_NAME /\ proc[w].pc = "check_run"
        /\ proc[w].pid = p

\* C12. Liveness no-op: a check_run that finds a process table entry for pid
\* replaces no image and changes nothing (pid, exe, any other process, any
\* file) but the caller's position, which goes back to the sleep of watch.
C12_LivenessNoOp ==
    [][\A p \in Pids :
          (Did("check_run", p) /\ ProcExists(proc[p].pid))
          => /\ fs' = fs
             /\ proc' = [proc EXCEPT ![p].pc = "sleep"]]_vars

C12_Witness ==
    /\ ev.op = "check_run" /\ ev.out = "running"
    /\ proc[ev.p].pc = "sleep"
    /\ Alive(proc[ev.p].pid) /\ proc[proc[ev.p].pid].pc \in {"spam", "spam_sleep"}


\* C13. End-to-end recovery, with no system call failing and every process
\* scheduled: (a) a file unlinked while the Watcher that guards it sleeps exists
\* again later; (b) after the Primary is killed while its Watcher sleeps, the
\* system gets back to exactly one process in spam and exactly one Watcher in
\* watch whose pid is that process.
Steady ==
    \E q, w \in Pids :
        /\ Beacon(q) /\ proc[q].argv0 /= WATCHER_NAME
        /\ Guardian(w) /\ proc[w].argv0 = WATCHER_NAME /\ proc[w].pid = q
        /\ \A r \in Pids : (Beacon(r) => r = q) /\ (Guardian(r) => r = w)

Guarded(path) == \E w \in Pids : proc[w].argv0 = WATCHER_NAME /\ Guardian(w) /\ proc[w].exe = path

C13_EndToEnd ==
    /\ \A path \in Paths : (ev.op = "unlink" /\ ~Exists(path) /\ Guarded(path)) ~> Exists(path)
    /\ (ev.op = "kill") ~> Steady

\* C14. Exclusive branch after fork: the child that the Primary forked never runs
\* the Beacon loop; only its parent does.
C14_ExclusiveBranch ==
    \A p \in Pids : Did_(p, {"forked"}) => ~Beacon(p)

\* C15. Descriptor release: a check_bin that returns leaves the caller's set of
\* open descriptors as it found it, whatever numbers its opens returned.
C15_DescriptorRelease ==
    [][\A p \in Pids :
          (Did("check_bin", p) /\ Alive(p)') => proc'[p].fds = proc[p].fds]_vars

\* C18. PeerHandle capture: once a forked Watcher has recorded its peer, the peer
\* is the Primary that forked it, even if that Primary died in between.
C18_PeerHandleCapture ==
    \A w \in Pids :
        (/\ Alive(w)
         /\ proc[w].argv0 = WATCHER_NAME
         /\ proc[w].forker /= 0
         /\ proc[w].pc /= "start")
        => proc[w].pid = proc[w].forker

\* C16. Startup failures are fatal: a failed resolution in init or a failed
\* fork in main ends the caller in that very step and starts no process; no
\* process is in either loop, or has forked, without a resolution that succeeded.
StartupFailed(p) ==
    \/ Did("init", p) /\ ev'.out = "failed"
    \/ Did("main_dispatch", p) /\ ev'.out = "fork_failed"

C16_StartupFatal ==
    /\ [][\A p \in Pids : StartupFailed(p) => proc' = Gone(proc, p) /\ fs' = fs]_vars
    /\ [](\A p \in Pids :
            /\ (Looping(p) /\ ~Did_(p, {"forked"})) => Did_(p, {"init"})
            /\ Did_(p, {"fork"}) => Did_(p, {"init"}))

C16_Witness ==
    /\ ev.op = "init" /\ ev.out = "failed"
    /\ ~Alive(ev.p)
    /\ \A q \in Pids : ~Looping(q)

C19_WakeOrdering ==
    [][\A p \in Pids :
          /\ (proc'[p].pc = "check_bin" /\ proc[p].pc /= "check_bin")
                => proc[p].pc = "sleep" /\ Did("watch", p)
          /\ (proc'[p].pc = "check_run" /\ proc[p].pc /= "check_run")
                => /\ proc[p].pc = "check_bin" /\ Did("check_bin", p)
                   /\ fs'[proc'[p].exe].present
          /\ (proc'[p].pc = "sleep" /\ proc[p].pc /= "sleep")
                => \/ proc[p].pc = "check_run" /\ Did("check_run", p)
                   \/ proc[p].pc = "dispatch" /\ Did("main_dispatch", p)
          /\ (proc[p].pc = "check_run" /\ proc'[p].pc = "check_run"
                 /\ Exists(proc[p].exe) /\ ~fs'[proc[p].exe].present)
                => ev'.op = "unlink"]_vars

C19_Witness ==
    \E p \in Pids :
        /\ ev = Event("check_bin", p, "restored")
        /\ proc[p].pc = "check_run"
        /\ ~ProcExists(proc[p].pid)
        /\ Exists(proc[p].exe)

\* C20. Single spawn: a process forks at most once since its exec, and only
\* after daemon; once every process left is in spam, no process is created and
\* no missing file comes back.
Forks(p) == Cardinality({i \in DOMAIN proc[p].hist : proc[p].hist[i][1] = "fork"})

Orphaned == (\E p \in Pids : Alive(p)) /\ \A p \in Pids : Alive(p) => Beacon(p)

C20_SingleSpawn ==
    /\ [](\A p \in Pids :
            /\ Forks(p) <= 1
            /\ \A i \in DOMAIN proc[p].hist :
                  proc[p].hist[i][1] = "fork"
                  => \E j \in 1..(i - 1) : proc[p].hist[j] = <<"daemon", proc[p].pid>>)
    /\ [][Orphaned =>
            /\ \A q \in Pids : ~Alive(q) => ~Alive(q)'
            /\ \A path \in Paths : ~Exists(path) => ~fs'[path].present]_vars

C20_Witness ==
    /\ Orphaned
    /\ kills > 0
    /\ ~Exists(OrigPath)
    /\ \E p \in Pids : Forks(p) = 1 /\ proc[p].pc = "spam" /\ proc[p].slept > 0

====
